---- MODULE Spec2Model ----
(***************************************************************************)
(* Model of src/js/main.js: the fade-in IntersectionObserver ("observer")  *)
(* and the hero/core stack swap ("stacksObserver").                        *)
(*                                                                         *)
(* Intersection ratios are written in percent (0.1 is 10, 0.35 is 35).     *)
(* A DOM node is a number: 1..NumElems are ordinary content elements, the  *)
(* next three are the node with id heroStack, the node with id coreStack   *)
(* and the first node of class core-values.                                *)
(***************************************************************************)
EXTENDS Integers, FiniteSets, Sequences, TLC

\* ---- bounds ----
NumElems == 2
MaxBatch == 2
\* completed stacksObserver entries remembered for the toggle properties
TrailLen == 3

\* ---- nodes of the document ----
Elems == 1..NumElems
heroStack == NumElems + 1
coreStack == NumElems + 2
coreSection == NumElems + 3
Nodes == 1..(NumElems + 3)

\* main.js:3 threshold: 0.1 and main.js:40 threshold: 0.35, in percent
observerThreshold == 10
stacksThreshold == 35

\* intersection ratios (percent) the platform reports in the model
Ratios == {5, 10, 20, 35, 40}

NoEntry == [target |-> 0, isIntersecting |-> FALSE, intersectionRatio |-> 0]

VARIABLES
    inDoc,          \* nodes present in the document
    markup,         \* class list of every node as written in the markup
    classList,      \* current class list of every node
    loaded,         \* the DOMContentLoaded handler has run
    observed,       \* targets of observer (fade-in animations)
    stacksCreated,  \* stacksObserver has been constructed
    stacksObserved, \* targets of stacksObserver
    cb,             \* callback being executed: "idle", "observer", "stacksObserver"
    queued,         \* targets that may still have an entry in the running batch
    batchLeft,      \* entries of the running batch not yet started
    entry,          \* entry being processed, or the last one processed
    handler,        \* callback that received entry: "none", "observer", "stacksObserver"
    pc,             \* position inside the handling of one entry
    threw,          \* a handler raised a TypeError
    tracking,       \* the trail is being recorded
    trail,          \* flag and layer markers after the last completed
                    \* stacksObserver entries, oldest first
    logging,        \* the log is being recorded
    log             \* target and flag of the entries handled so far in the
                    \* running batch (the last batch when no callback runs)

vars == <<inDoc, markup, classList, loaded, observed, stacksCreated,
          stacksObserved, cb, queued, batchLeft, entry, handler, pc, threw,
          tracking, trail, logging, log>>

\* ---- DOM helpers ----
\* element.classList.add(c) / remove(c)
ClassAdd(cl, n, c) == [cl EXCEPT ![n] = @ \cup {c}]
ClassRemove(cl, n, c) == [cl EXCEPT ![n] = @ \ {c}]

\* document.querySelectorAll('.' + c)
QuerySelectorAll(c) == {n \in inDoc : c \in classList[n]}

fadeElements == QuerySelectorAll("fade-in")
staggerElements == QuerySelectorAll("stagger")

\* variant: the guard forgets coreStack
StackGuardNoCore == heroStack \in inDoc /\ coreSection \in inDoc

\* if (heroStack && coreStack && coreSection)
StackGuard == heroStack \in inDoc /\ coreStack \in inDoc /\ coreSection \in inDoc

\* Entries an IntersectionObserver with the given threshold can deliver for a
\* target: at or above the threshold the target is reported intersecting;
\* below it the flag depends on the engine (the W3C algorithm reports any
\* overlap or edge adjacency as intersecting, Blink and Gecko report it only
\* from the first threshold on).
Deliverable(threshold, targets) ==
    {e \in [target : targets, isIntersecting : BOOLEAN, intersectionRatio : Ratios] :
        e.intersectionRatio >= threshold => e.isIntersecting}

\* ---- markup the page may be loaded with ----
AnimTags == SUBSET {"fade-in", "stagger"}
LayerTags == {{}, {"hidden"}}
SectionTags == {{}, {"fade-in"}}

\* The script treats content elements alike whatever their document order,
\* so markups are enumerated up to a permutation of the content elements:
\* untagged first, then fade-in, then stagger, then both.
TagRank(t) == Cardinality(t) + (IF "stagger" \in t THEN Cardinality(t) ELSE 0)

Markups ==
    {m \in [Nodes -> SUBSET {"fade-in", "stagger", "hidden"}] :
        /\ \A n \in Elems : m[n] \in AnimTags
        /\ \A i, j \in Elems : i < j => TagRank(m[i]) <= TagRank(m[j])
        /\ m[heroStack] \in LayerTags
        /\ m[coreStack] \in LayerTags
        /\ m[coreSection] \in SectionTags}

\* the page as parsed, before any handler has run
Page ==
    /\ inDoc \in {d \in SUBSET Nodes : Elems \subseteq d}
    /\ markup \in {m \in Markups : \A n \in Nodes \ inDoc : m[n] = {}}
    /\ classList = markup

\* variant: the observe calls run at script evaluation, outside the listener
StartEager ==
    /\ loaded = FALSE
    /\ observed = fadeElements \cup staggerElements
    /\ stacksCreated = FALSE
    /\ stacksObserved = {}
    /\ cb = "idle"
    /\ queued = {}
    /\ batchLeft = 0
    /\ entry = NoEntry
    /\ handler = "none"
    /\ pc = "idle"
    /\ threw = FALSE
    /\ trail = << >>
    /\ log = << >>

\* state after the script has been evaluated : main.js:1-17
Start ==
    /\ loaded = FALSE
    /\ observed = {}
    /\ stacksCreated = FALSE
    /\ stacksObserved = {}
    /\ cb = "idle"
    /\ queued = {}
    /\ batchLeft = 0
    /\ entry = NoEntry
    /\ handler = "none"
    /\ pc = "idle"
    /\ threw = FALSE
    /\ trail = << >>
    /\ log = << >>

Init == Page /\ Start /\ tracking = FALSE /\ logging = FALSE

\* pages with at most one animated content element, trail recorded
InitTrail ==
    /\ Page
    /\ \A n \in Elems \ {NumElems} : markup[n] = {}
    /\ Start
    /\ tracking = TRUE
    /\ logging = FALSE

\* pages with at most one animated content element, log recorded
InitBatch ==
    /\ Page
    /\ \A n \in Elems \ {NumElems} : markup[n] = {}
    /\ Start
    /\ tracking = FALSE
    /\ logging = TRUE

\* pages on which the two layers may themselves be tagged fade-in
SharedLayerTags == {{}, {"hidden"}, {"fade-in"}, {"fade-in", "hidden"}}

SharedMarkups ==
    {m \in [Nodes -> SUBSET {"fade-in", "hidden"}] :
        /\ \A n \in Elems \ {NumElems} : m[n] = {}
        /\ m[NumElems] \in {{}, {"fade-in"}}
        /\ m[heroStack] \in SharedLayerTags
        /\ m[coreStack] \in SharedLayerTags
        /\ m[coreSection] \in SectionTags}

InitShared ==
    /\ inDoc \in {d \in SUBSET Nodes : Elems \subseteq d}
    /\ markup \in {m \in SharedMarkups : \A n \in Nodes \ inDoc : m[n] = {}}
    /\ classList = markup
    /\ Start
    /\ tracking = FALSE
    /\ logging = FALSE

\* variant: stacksObserver.observe(coreSection) is missing
DOMContentLoadedNoObserve ==
    /\ ~loaded
    /\ loaded' = TRUE
    /\ observed' = observed \cup fadeElements \cup staggerElements
    /\ stacksCreated' = StackGuard
    /\ stacksObserved' = {}
    /\ classList' = classList
    /\ UNCHANGED <<inDoc, markup, cb, queued, batchLeft, entry, handler, pc,
                   threw, tracking, trail, logging, log>>

\* variant: the observe calls of the animator sit inside the stack guard
DOMContentLoadedGuarded ==
    /\ ~loaded
    /\ loaded' = TRUE
    /\ observed' = IF StackGuard THEN observed \cup fadeElements \cup staggerElements ELSE observed
    /\ stacksCreated' = StackGuard
    /\ stacksObserved' = IF StackGuard THEN {coreSection} ELSE {}
    /\ classList' = classList
    /\ UNCHANGED <<inDoc, markup, cb, queued, batchLeft, entry, handler, pc,
                   threw, tracking, trail, logging, log>>

\* variant: coreSection is handed to observer instead of stacksObserver
DOMContentLoadedWrongObserver ==
    /\ ~loaded
    /\ loaded' = TRUE
    /\ observed' = IF StackGuard THEN observed \cup fadeElements \cup staggerElements \cup {coreSection} ELSE observed \cup fadeElements \cup staggerElements
    /\ stacksCreated' = StackGuard
    /\ stacksObserved' = {}
    /\ classList' = classList
    /\ UNCHANGED <<inDoc, markup, cb, queued, batchLeft, entry, handler, pc,
                   threw, tracking, trail, logging, log>>

\* variant: the stagger elements are not observed
DOMContentLoadedNoStagger ==
    /\ ~loaded
    /\ loaded' = TRUE
    /\ observed' = observed \cup fadeElements
    /\ stacksCreated' = StackGuard
    /\ stacksObserved' = IF StackGuard THEN {coreSection} ELSE {}
    /\ classList' = classList
    /\ UNCHANGED <<inDoc, markup, cb, queued, batchLeft, entry, handler, pc,
                   threw, tracking, trail, logging, log>>

\* variant: the targets are marked visible as soon as they are observed
DOMContentLoadedMarkAll ==
    /\ ~loaded
    /\ loaded' = TRUE
    /\ observed' = observed \cup fadeElements \cup staggerElements
    /\ stacksCreated' = StackGuard
    /\ stacksObserved' = IF StackGuard THEN {coreSection} ELSE {}
    /\ classList' = [n \in Nodes |-> IF n \in fadeElements \cup staggerElements
                                      THEN classList[n] \cup {"visible"} ELSE classList[n]]
    /\ UNCHANGED <<inDoc, markup, cb, queued, batchLeft, entry, handler, pc,
                   threw, tracking, trail, logging, log>>

\* variant: an element found by both queries is observed by neither loop
DOMContentLoadedSkipBoth ==
    /\ ~loaded
    /\ loaded' = TRUE
    /\ observed' = observed \cup ((fadeElements \cup staggerElements)
                                      \ (fadeElements \cap staggerElements))
    /\ stacksCreated' = StackGuard
    /\ stacksObserved' = IF StackGuard THEN {coreSection} ELSE {}
    /\ classList' = classList
    /\ UNCHANGED <<inDoc, markup, cb, queued, batchLeft, entry, handler, pc,
                   threw, tracking, trail, logging, log>>

\* ---- document.addEventListener('DOMContentLoaded', ...) : main.js:17-44 ----
DOMContentLoaded ==
    /\ ~loaded
    /\ loaded' = TRUE
    /\ observed' = observed \cup fadeElements \cup staggerElements
    /\ stacksCreated' = StackGuard
    /\ stacksObserved' = IF StackGuard THEN {coreSection} ELSE {}
    /\ UNCHANGED <<inDoc, markup, classList, cb, queued, batchLeft, entry, handler, pc,
                   threw, tracking, trail, logging, log>>

\* ---- the platform invokes a callback with a batch of entries ----
ObserverBatch ==
    /\ cb = "idle"
    /\ observed # {}
    /\ \E k \in 1..MaxBatch : batchLeft' = k
    /\ cb' = "observer"
    /\ queued' = observed
    /\ UNCHANGED <<inDoc, markup, classList, loaded, observed, stacksCreated,
                   stacksObserved, entry, handler, pc, threw, tracking, trail,
                   logging>>
    /\ log' = << >>

StacksBatch ==
    /\ cb = "idle"
    /\ stacksCreated
    /\ stacksObserved # {}
    /\ \E k \in 1..MaxBatch : batchLeft' = k
    /\ cb' = "stacksObserver"
    /\ queued' = stacksObserved
    /\ UNCHANGED <<inDoc, markup, classList, loaded, observed, stacksCreated,
                   stacksObserved, entry, handler, pc, threw, tracking, trail,
                   logging>>
    /\ log' = << >>

\* the trail keeps the last TrailLen completed entries
Remember(t, flag, cl) ==
    LET r == [isIntersecting |-> flag,
              hero |-> "hidden" \in cl[heroStack],
              core |-> "hidden" \in cl[coreStack]]
    IN  IF Len(t) < TrailLen THEN Append(t, r) ELSE Append(Tail(t), r)

\* what the log keeps of an entry
Logged(e) == [target |-> e.target, isIntersecting |-> e.isIntersecting]

\* after the last entry the callback returns
AfterEntry(left) ==
    /\ batchLeft' = left
    /\ cb' = IF left = 0 THEN "idle" ELSE cb
    /\ queued' = IF left = 0 THEN {} ELSE queued

\* variant: classList.toggle('visible', entry.isIntersecting)
ObserverHandleToggle(e) ==
    /\ entry' = e
    /\ handler' = "observer"
    /\ IF e.isIntersecting
          THEN /\ classList' = ClassAdd(classList, e.target, "visible")
               /\ observed' = observed \ {e.target}
          ELSE /\ classList' = ClassRemove(classList, e.target, "visible")
               /\ UNCHANGED observed

\* variant: the unobserve call is missing
ObserverHandleKeep(e) ==
    /\ entry' = e
    /\ handler' = "observer"
    /\ IF e.isIntersecting
          THEN /\ classList' = ClassAdd(classList, e.target, "visible")
               /\ UNCHANGED observed
          ELSE UNCHANGED <<classList, observed>>

\* variant: an intersecting entry marks every observed target
ObserverHandleAll(e) ==
    /\ entry' = e
    /\ handler' = "observer"
    /\ IF e.isIntersecting
          THEN /\ classList' = [n \in Nodes |->
                                   IF n \in observed \cup {e.target}
                                      THEN classList[n] \cup {"visible"}
                                      ELSE classList[n]]
               /\ observed' = {}
          ELSE UNCHANGED <<classList, observed>>

\* variant: classList.toggle('visible') on an intersecting entry
ObserverHandleFlip(e) ==
    /\ entry' = e
    /\ handler' = "observer"
    /\ IF e.isIntersecting
          THEN /\ classList' = IF "visible" \in classList[e.target]
                                  THEN ClassRemove(classList, e.target, "visible")
                                  ELSE ClassAdd(classList, e.target, "visible")
               /\ observed' = observed \ {e.target}
          ELSE UNCHANGED <<classList, observed>>

\* variant: the classList.add call is missing
ObserverHandleUnobserveOnly(e) ==
    /\ entry' = e
    /\ handler' = "observer"
    /\ IF e.isIntersecting
          THEN /\ observed' = observed \ {e.target}
               /\ UNCHANGED classList
          ELSE UNCHANGED <<classList, observed>>

\* variant: the unobserve call sits outside the if
ObserverHandleUnobserveAlways(e) ==
    /\ entry' = e
    /\ handler' = "observer"
    /\ observed' = observed \ {e.target}
    /\ IF e.isIntersecting
          THEN classList' = ClassAdd(classList, e.target, "visible")
          ELSE UNCHANGED classList

\* variant: the handler runs the two queries again and observes what they find
ObserverHandleRequery(e) ==
    /\ entry' = e
    /\ handler' = "observer"
    /\ IF e.isIntersecting
          THEN /\ classList' = ClassAdd(classList, e.target, "visible")
               /\ observed' = (observed \cup fadeElements \cup staggerElements) \ {e.target}
          ELSE /\ observed' = observed \cup fadeElements \cup staggerElements
               /\ UNCHANGED classList

\* variant: the condition of the if is negated
ObserverHandleInverted(e) ==
    /\ entry' = e
    /\ handler' = "observer"
    /\ IF ~e.isIntersecting
          THEN /\ classList' = ClassAdd(classList, e.target, "visible")
               /\ observed' = observed \ {e.target}
          ELSE UNCHANGED <<classList, observed>>

\* ---- observer callback, one entry of entries.forEach : main.js:8-13 ----
ObserverHandle(e) ==
    /\ entry' = e
    /\ handler' = "observer"
    /\ IF e.isIntersecting
          THEN /\ classList' = ClassAdd(classList, e.target, "visible")
               /\ observed' = observed \ {e.target}
          ELSE UNCHANGED <<classList, observed>>

\* variant: unobserve takes the target out of every observer
ObserverEntryShared ==
    /\ cb = "observer"
    /\ batchLeft > 0
    /\ \E e \in Deliverable(observerThreshold, queued) : ObserverHandle(e)
    /\ AfterEntry(batchLeft - 1)
    /\ log' = IF logging THEN Append(log, Logged(entry')) ELSE log
    /\ stacksObserved' = IF entry'.isIntersecting
                            THEN stacksObserved \ {entry'.target}
                            ELSE stacksObserved
    /\ UNCHANGED <<inDoc, markup, loaded, stacksCreated, pc, threw,
                   tracking, trail, logging>>

ObserverEntry ==
    /\ cb = "observer"
    /\ batchLeft > 0
    /\ \E e \in Deliverable(observerThreshold, queued) : ObserverHandle(e)
    /\ AfterEntry(batchLeft - 1)
    /\ log' = IF logging THEN Append(log, Logged(entry')) ELSE log
    /\ UNCHANGED <<inDoc, markup, loaded, stacksCreated, stacksObserved, pc, threw,
                   tracking, trail, logging>>

\* ---- stacksObserver callback, one entry : main.js:31-39 ----
\* variant: the condition of the branch is inverted
StacksFirstInverted(e) ==
    /\ entry' = e
    /\ handler' = "stacksObserver"
    /\ IF heroStack \in inDoc
          THEN /\ classList' = IF ~e.isIntersecting
                                  THEN ClassAdd(classList, heroStack, "hidden")
                                  ELSE ClassRemove(classList, heroStack, "hidden")
               /\ pc' = "second"
               /\ UNCHANGED threw
          ELSE /\ threw' = TRUE
               /\ pc' = "idle"
               /\ UNCHANGED classList

\* variant: heroStack is only ever hidden, never shown again
StacksFirstAddOnly(e) ==
    /\ entry' = e
    /\ handler' = "stacksObserver"
    /\ IF heroStack \in inDoc
          THEN /\ classList' = IF e.isIntersecting
                                  THEN ClassAdd(classList, heroStack, "hidden")
                                  ELSE classList
               /\ pc' = "second"
               /\ UNCHANGED threw
          ELSE /\ threw' = TRUE
               /\ pc' = "idle"
               /\ UNCHANGED classList

\* variant: the first mutation goes to entry.target instead of heroStack
StacksFirstTarget(e) ==
    /\ entry' = e
    /\ handler' = "stacksObserver"
    /\ IF heroStack \in inDoc
          THEN /\ classList' = IF e.isIntersecting
                                  THEN ClassAdd(classList, e.target, "hidden")
                                  ELSE ClassRemove(classList, e.target, "hidden")
               /\ pc' = "second"
               /\ UNCHANGED threw
          ELSE /\ threw' = TRUE
               /\ pc' = "idle"
               /\ UNCHANGED classList

\* variant: heroStack.classList.toggle('hidden') in both branches
StacksFirstToggle(e) ==
    /\ entry' = e
    /\ handler' = "stacksObserver"
    /\ IF heroStack \in inDoc
          THEN /\ classList' = IF "hidden" \in classList[heroStack]
                                  THEN ClassRemove(classList, heroStack, "hidden")
                                  ELSE ClassAdd(classList, heroStack, "hidden")
               /\ pc' = "second"
               /\ UNCHANGED threw
          ELSE /\ threw' = TRUE
               /\ pc' = "idle"
               /\ UNCHANGED classList

\* first class mutation of the branch taken (main.js:33 / main.js:36)
StacksFirst(e) ==
    /\ entry' = e
    /\ handler' = "stacksObserver"
    /\ IF heroStack \in inDoc
          THEN /\ classList' = IF e.isIntersecting
                                  THEN ClassAdd(classList, heroStack, "hidden")
                                  ELSE ClassRemove(classList, heroStack, "hidden")
               /\ pc' = "second"
               /\ UNCHANGED threw
          ELSE /\ threw' = TRUE
               /\ pc' = "idle"
               /\ UNCHANGED classList

StacksEntryFirst ==
    /\ cb = "stacksObserver"
    /\ batchLeft > 0
    /\ pc = "idle"
    /\ \E e \in Deliverable(stacksThreshold, queued) : StacksFirst(e)
    /\ IF heroStack \in inDoc
          THEN UNCHANGED <<cb, queued, batchLeft>>
          ELSE /\ cb' = "idle"
               /\ queued' = {}
               /\ batchLeft' = 0
    /\ UNCHANGED <<inDoc, markup, loaded, observed, stacksCreated, stacksObserved,
                   tracking, trail, logging, log>>

\* variant: both branches add the class to coreStack
StacksSecondAdd ==
    IF coreStack \in inDoc
       THEN /\ classList' = ClassAdd(classList, coreStack, "hidden")
            /\ AfterEntry(batchLeft - 1)
            /\ UNCHANGED threw
       ELSE /\ threw' = TRUE
            /\ cb' = "idle"
            /\ queued' = {}
            /\ batchLeft' = 0
            /\ UNCHANGED classList

\* variant: the else branch leaves coreStack alone
StacksSecondSkip ==
    IF coreStack \in inDoc
       THEN /\ classList' = IF entry.isIntersecting
                               THEN ClassRemove(classList, coreStack, "hidden")
                               ELSE classList
            /\ AfterEntry(batchLeft - 1)
            /\ UNCHANGED threw
       ELSE /\ threw' = TRUE
            /\ cb' = "idle"
            /\ queued' = {}
            /\ batchLeft' = 0
            /\ UNCHANGED classList

\* variant: coreStack is shown by giving it the visible class as well
StacksSecondVisible ==
    IF coreStack \in inDoc
       THEN /\ classList' = IF entry.isIntersecting
                               THEN ClassAdd(ClassRemove(classList, coreStack, "hidden"),
                                             coreStack, "visible")
                               ELSE ClassAdd(classList, coreStack, "hidden")
            /\ AfterEntry(batchLeft - 1)
            /\ UNCHANGED threw
       ELSE /\ threw' = TRUE
            /\ cb' = "idle"
            /\ queued' = {}
            /\ batchLeft' = 0
            /\ UNCHANGED classList

\* variant: coreStack.classList.toggle('hidden') in both branches
StacksSecondToggle ==
    IF coreStack \in inDoc
       THEN /\ classList' = IF "hidden" \in classList[coreStack]
                               THEN ClassRemove(classList, coreStack, "hidden")
                               ELSE ClassAdd(classList, coreStack, "hidden")
            /\ AfterEntry(batchLeft - 1)
            /\ UNCHANGED threw
       ELSE /\ threw' = TRUE
            /\ cb' = "idle"
            /\ queued' = {}
            /\ batchLeft' = 0
            /\ UNCHANGED classList

\* second class mutation of the branch taken (main.js:34 / main.js:37)
StacksSecond ==
    IF coreStack \in inDoc
       THEN /\ classList' = IF entry.isIntersecting
                               THEN ClassRemove(classList, coreStack, "hidden")
                               ELSE ClassAdd(classList, coreStack, "hidden")
            /\ AfterEntry(batchLeft - 1)
            /\ UNCHANGED threw
       ELSE /\ threw' = TRUE
            /\ cb' = "idle"
            /\ queued' = {}
            /\ batchLeft' = 0
            /\ UNCHANGED classList

StacksEntrySecond ==
    /\ cb = "stacksObserver"
    /\ pc = "second"
    /\ StacksSecond
    /\ pc' = "idle"
    /\ trail' = IF tracking THEN Remember(trail, entry.isIntersecting, classList') ELSE trail
    /\ log' = IF logging THEN Append(log, Logged(entry)) ELSE log
    /\ UNCHANGED <<tracking, logging>>
    /\ UNCHANGED <<inDoc, markup, loaded, observed, stacksCreated, stacksObserved,
                   entry, handler>>

Next ==
    \/ DOMContentLoaded
    \/ ObserverBatch
    \/ StacksBatch
    \/ ObserverEntry
    \/ StacksEntryFirst
    \/ StacksEntrySecond

Spec == Init /\ [][Next]_vars

SpecTrail == InitTrail /\ [][Next]_vars

SpecBatch == InitBatch /\ [][Next]_vars

SpecShared == InitShared /\ [][Next]_vars

\* ---- the document changes after the listener has run ----
\* The listener of main.js:17 runs its queries (main.js:18-19, 25-27) once.
\* Other code of the page may insert or tag nodes later; it runs between
\* callbacks, never inside one.  A change made before the listener has run
\* is a different page as parsed.
InitDom ==
    /\ inDoc \in {d \in SUBSET Nodes : Elems \ {NumElems} \subseteq d}
    /\ markup \in {m \in Markups :
                      /\ \A n \in Nodes \ inDoc : m[n] = {}
                      /\ \A n \in Elems \ {NumElems} : m[n] = {}
                      /\ m[NumElems] \in {{}, {"fade-in"}}}
    /\ classList = markup
    /\ Start
    /\ tracking = FALSE
    /\ logging = FALSE

\* class lists a node may be inserted with
InsertTags(n) == IF n \in {heroStack, coreStack} THEN LayerTags ELSE SectionTags

\* a node that was not part of the page is inserted
InsertNode ==
    /\ loaded
    /\ cb = "idle"
    /\ \E n \in Nodes \ inDoc :
          /\ inDoc' = inDoc \cup {n}
          /\ \E t \in InsertTags(n) : classList' = [classList EXCEPT ![n] = t]
    /\ UNCHANGED <<markup, loaded, observed, stacksCreated, stacksObserved, cb, queued,
                   batchLeft, entry, handler, pc, threw, tracking, trail, logging, log>>

\* a node of the document that carries neither class is given the class
\* fade-in or stagger
TagNode ==
    /\ loaded
    /\ cb = "idle"
    /\ \E n \in inDoc \cap (Elems \cup {coreSection}) :
          \E c \in {"fade-in", "stagger"} :
             /\ classList[n] \cap {"fade-in", "stagger"} = {}
             /\ classList' = ClassAdd(classList, n, c)
    /\ UNCHANGED <<inDoc, markup, loaded, observed, stacksCreated, stacksObserved, cb,
                   queued, batchLeft, entry, handler, pc, threw, tracking, trail,
                   logging, log>>

NextDom ==
    \/ Next
    \/ InsertNode
    \/ TagNode

SpecDom == InitDom /\ [][NextDom]_vars

\* ---- scheduling ----
\* observer handles an intersecting entry for n
ObserverFire(n) ==
    /\ ObserverEntry
    /\ entry'.target = n
    /\ entry'.isIntersecting

\* The DOMContentLoaded event is dispatched; a callback that has been invoked
\* runs its forEach to the end; the platform keeps delivering batches to
\* observer while it has targets, and every target it observes is in the end
\* handed an intersecting entry.
Fairness ==
    /\ WF_vars(DOMContentLoaded)
    /\ WF_vars(ObserverEntry)
    /\ WF_vars(StacksEntryFirst)
    /\ WF_vars(StacksEntrySecond)
    /\ SF_vars(ObserverBatch)
    /\ \A n \in Nodes : SF_vars(ObserverFire(n))

\* pages with at most one animated content element, nothing recorded
InitLive ==
    /\ Page
    /\ \A n \in Elems \ {NumElems} : markup[n] = {}
    /\ Start
    /\ tracking = FALSE
    /\ logging = FALSE

SpecLive == InitLive /\ [][Next]_vars /\ Fairness

\* ---- vocabulary of the properties ----
Visible(n) == "visible" \in classList[n]
Hidden(n) == "hidden" \in classList[n]

\* elements tagged fade-in or stagger in the markup
Animated == {n \in inDoc : markup[n] \cap {"fade-in", "stagger"} # {}}

\* exactly one of the two layers carries the hidden marker
ComplementaryIn(cl) == ("hidden" \in cl[heroStack]) # ("hidden" \in cl[coreStack])
Complementary == ComplementaryIn(classList)
BothLayers == heroStack \in inDoc /\ coreStack \in inDoc

\* a step in which the observer callback handles one entry
ObserverProcessed == cb = "observer" /\ batchLeft' = batchLeft - 1
\* a step in which the stacksObserver callback finishes one entry
StacksProcessed == cb = "stacksObserver" /\ pc = "second" /\ pc' = "idle"

\* C1: once an animated element carries the visible marker, no step of either
\* callback (whatever the entry and its target) removes it.
C1_FireOnceMonotonic ==
    [][\A n \in Animated : Visible(n) => "visible" \in classList'[n]]_vars

\* a marked element has since received a non-intersecting entry and kept its mark
C1_Witness ==
    \E n \in Animated :
        /\ Visible(n)
        /\ handler = "observer"
        /\ entry.target = n
        /\ ~entry.isIntersecting

\* C2: the step that marks an element visible also removes it from the
\* observed set, a marked element is never observed, and after initialization
\* nothing is ever added to the observed set.
C2_Unsubscribed ==
    /\ [](\A n \in Nodes : Visible(n) => n \notin observed)
    /\ [][/\ \A n \in Nodes :
                (~Visible(n) /\ "visible" \in classList'[n]) => n \notin observed'
          /\ loaded => observed' \subseteq observed]_vars

\* a later batch is being delivered and the marked element is not part of it
C2_Witness ==
    \E n \in Animated :
        /\ Visible(n)
        /\ n \notin observed
        /\ cb = "observer"
        /\ n \notin queued
        /\ batchLeft = MaxBatch

\* C3: an entry handled for a pending animated element marks it visible
\* exactly when its intersection ratio is at least the threshold 0.1.
C3_ThresholdGating ==
    [][(ObserverProcessed /\ ~Visible(entry'.target)) =>
          (("visible" \in classList'[entry'.target])
              <=> (entry'.intersectionRatio >= observerThreshold))]_vars

\* C4: with all three stack nodes present, exactly one layer is hidden after
\* each trigger entry has been processed, whatever the markings were before.
C4_ComplementaryAfterEntry ==
    [][(StacksProcessed /\ StackGuard) => ComplementaryIn(classList')]_vars

\* an entry has been processed on a page whose markup had both layers alike
C4_Witness ==
    /\ StackGuard
    /\ ~ComplementaryIn(markup)
    /\ handler = "stacksObserver"
    /\ pc = "idle"
    /\ Complementary

\* C5 as stated: in every reachable state exactly one layer is hidden.
C5_AlwaysComplementary == (loaded /\ BothLayers) => Complementary

\* C5 amended: outside the window between the two class mutations of one
\* entry, a complementary marking is never lost, and every processed entry
\* ends in one.
C5_ComplementaryKept ==
    [][(BothLayers /\ pc' = "idle" /\ (Complementary \/ pc = "second"))
          => ComplementaryIn(classList')]_vars

\* the marking established by the switcher is still in place while the other
\* observer's batch is delivered
C5_Witness ==
    /\ BothLayers
    /\ ~ComplementaryIn(markup)
    /\ handler = "stacksObserver"
    /\ cb = "observer"
    /\ Complementary

\* C6: after an intersecting trigger entry hero is hidden and core shown,
\* after a non-intersecting one hero is shown and core hidden.
C6_Direction ==
    [][(StacksProcessed /\ StackGuard) =>
          IF entry'.isIntersecting
             THEN "hidden" \in classList'[heroStack] /\ "hidden" \notin classList'[coreStack]
             ELSE "hidden" \notin classList'[heroStack] /\ "hidden" \in classList'[coreStack]]_vars

\* hero shown and core hidden in the markup, then (intersecting, 0.4) handled
C6_Witness ==
    /\ StackGuard
    /\ "hidden" \notin markup[heroStack]
    /\ "hidden" \in markup[coreStack]
    /\ handler = "stacksObserver"
    /\ pc = "idle"
    /\ entry.isIntersecting
    /\ entry.intersectionRatio = 40
    /\ Hidden(heroStack)
    /\ ~Hidden(coreStack)

\* C7: a trigger entry whose ratio is below 0.35 never leaves hero hidden and
\* core shown.
C7_StackThresholdGating ==
    [][(StacksProcessed /\ StackGuard /\ entry'.intersectionRatio < stacksThreshold)
          => ~("hidden" \in classList'[heroStack] /\ "hidden" \notin classList'[coreStack])]_vars

\* entries i..j of the trail toggle the intersection state at every step
Alternating(i, j) ==
    \A k \in i..(j - 1) : trail[k].isIntersecting # trail[k + 1].isIntersecting
SameAssignment(i, j) == trail[i].hero = trail[j].hero /\ trail[i].core = trail[j].core
OppositeAssignment(i, j) == trail[i].hero # trail[j].hero /\ trail[i].core # trail[j].core

\* C8: along entries that alternately toggle the trigger's intersection
\* state, the assignment after an even number of toggles is the starting
\* one, and after an odd number it is the one after the first toggle, the
\* opposite of the start.
C8_Reversible ==
    \A i, j \in 1..Len(trail) :
        (i < j /\ Alternating(i, j)) =>
            IF (j - i) % 2 = 0
               THEN SameAssignment(i, j)
               ELSE SameAssignment(i + 1, j) /\ OppositeAssignment(i, j)

\* an established assignment followed by two toggles
C8_Witness ==
    /\ Len(trail) = TrailLen
    /\ Alternating(1, TrailLen)
    /\ ~ComplementaryIn(markup)
    /\ pc = "idle"

\* C9: when one of the three stack nodes is absent, initialization creates no
\* stacksObserver, observes nothing with it, raises no error, and the hidden
\* markers of the layers stay as the markup wrote them.
C9_GuardNoOp ==
    (loaded /\ ~(heroStack \in inDoc /\ coreStack \in inDoc /\ coreSection \in inDoc)) =>
        /\ ~stacksCreated
        /\ stacksObserved = {}
        /\ ~threw
        /\ \A n \in {heroStack, coreStack} : Hidden(n) <=> "hidden" \in markup[n]

\* coreStack is absent, the page is initialized and the animator keeps working
C9_Witness ==
    /\ loaded
    /\ coreStack \notin inDoc
    /\ heroStack \in inDoc
    /\ coreSection \in inDoc
    /\ handler = "observer"
    /\ cb = "idle"

\* C10: handling an entry changes the class list and the subscription of the
\* entry's target only.
C10_Isolation ==
    [][ObserverProcessed =>
          \A n \in Nodes \ {entry'.target} :
              /\ classList'[n] = classList[n]
              /\ (n \in observed') <=> (n \in observed)]_vars

\* three pending fade targets, (intersecting, 0.2) handled for the middle one
C10_Witness ==
    \E a, b, c \in Nodes :
        /\ a < b /\ b < c
        /\ \A n \in {a, b, c} : n \in inDoc /\ "fade-in" \in markup[n]
        /\ handler = "observer"
        /\ entry = [target |-> b, isIntersecting |-> TRUE, intersectionRatio |-> 20]
        /\ Visible(b)
        /\ b \notin observed
        /\ ~Visible(a) /\ ~Visible(c)
        /\ a \in observed /\ c \in observed

\* the step in which the DOMContentLoaded handler runs
InitStep == ~loaded /\ loaded'

\* C11: once stacksObserver exists the trigger region stays observed for
\* good, a further batch can always be delivered to it, and every entry it
\* has processed left the layers as its flag says.
C11_NeverUnsubscribes ==
    /\ [](stacksCreated =>
            /\ coreSection \in stacksObserved
            /\ (cb = "idle" => ENABLED StacksBatch))
    /\ [](\A i \in 1..Len(trail) :
            /\ trail[i].hero = trail[i].isIntersecting
            /\ trail[i].core = ~trail[i].isIntersecting)
    /\ [][stacksCreated => (stacksCreated' /\ stacksObserved' = stacksObserved)]_vars

\* both assignments have been established and one more batch is arriving
C11_Witness ==
    /\ stacksCreated
    /\ Len(trail) = TrailLen
    /\ \E i, j \in 1..Len(trail) : i < j /\ trail[i].hero /\ ~trail[j].hero
    /\ \E i, j \in 1..Len(trail) : i < j /\ ~trail[i].hero /\ trail[j].hero
    /\ cb = "stacksObserver"
    /\ batchLeft = MaxBatch

\* C12: whatever the stack guard evaluates to, initialization observes
\* exactly the elements tagged fade-in or stagger, batches can be delivered
\* for them, and an intersecting entry marks its target visible.
C12_AnimatorIndependent ==
    /\ []((loaded /\ cb = "idle" /\ observed # {}) => ENABLED ObserverBatch)
    /\ [][/\ InitStep => observed' = Animated
          /\ (ObserverProcessed /\ entry'.isIntersecting) =>
                /\ "visible" \in classList'[entry'.target]
                /\ entry'.target \notin observed']_vars

\* the switcher disabled itself and an element has been marked all the same
C12_Witness ==
    /\ loaded
    /\ ~(heroStack \in inDoc /\ coreStack \in inDoc /\ coreSection \in inDoc)
    /\ ~stacksCreated
    /\ handler = "observer"
    /\ entry.isIntersecting
    /\ Visible(entry.target)
    /\ entry.target \notin observed

\* C13: an intersecting entry for an element that is already marked visible
\* changes nothing on the page.
C13_Idempotent ==
    [][(ObserverProcessed /\ entry'.isIntersecting /\ Visible(entry'.target)) =>
          /\ classList' = classList
          /\ observed' = observed
          /\ stacksObserved' = stacksObserved
          /\ stacksCreated' = stacksCreated
          /\ threw' = threw]_vars

\* one batch carried two intersecting entries for the same target
C13_Witness ==
    /\ handler = "observer"
    /\ Len(log) >= 2
    /\ log[1].target = log[2].target
    /\ log[1].isIntersecting
    /\ log[2].isIntersecting
    /\ Visible(log[1].target)

\* C14: when nothing is tagged fade-in or stagger, the animator observes
\* nothing, no error is raised and no node ever gets the visible marker.
C14_EmptyTargets ==
    (loaded /\ Animated = {}) =>
        /\ observed = {}
        /\ ~threw
        /\ \A n \in Nodes : ~Visible(n)

\* a page without targets on which the switcher has been at work
C14_Witness ==
    /\ loaded
    /\ Animated = {}
    /\ handler = "stacksObserver"
    /\ pc = "idle"
    /\ cb = "idle"

\* C15: before the DOMContentLoaded handler has run nothing is observed and
\* no class has been written; the handler runs at most once.
C15_InitOrdering ==
    /\ [](~loaded =>
            /\ observed = {}
            /\ stacksObserved = {}
            /\ ~stacksCreated
            /\ classList = markup
            /\ cb = "idle"
            /\ handler = "none")
    /\ [](loaded => ~ENABLED DOMContentLoaded)
    /\ [][loaded => loaded']_vars

\* initialization has run and set up both observers, nothing delivered yet
C15_Witness ==
    /\ loaded
    /\ observed # {}
    /\ stacksCreated
    /\ stacksObserved = {coreSection}
    /\ handler = "none"

\* outcome of one entry for its target, whatever the target's tag
MarkedAfter(wasVisible, flag) == wasVisible \/ flag
ObservedAfter(wasObserved, flag) == wasObserved /\ ~flag

\* C16: elements of the fade-in group and of the stagger group are observed
\* alike at initialization and go through the same transition on every entry.
C16_SameTreatment ==
    [][\A g \in {"fade-in", "stagger"} :
          /\ InitStep => \A n \in inDoc : g \in markup[n] => n \in observed'
          /\ (ObserverProcessed /\ g \in markup[entry'.target]) =>
                /\ ("visible" \in classList'[entry'.target])
                      <=> MarkedAfter(Visible(entry'.target), entry'.isIntersecting)
                /\ (entry'.target \in observed')
                      <=> ObservedAfter(entry'.target \in observed, entry'.isIntersecting)]_vars

\* an element tagged only fade-in and one tagged only stagger have both fired
C16_Witness ==
    \E a, b \in inDoc :
        /\ markup[a] = {"fade-in"}
        /\ markup[b] = {"stagger"}
        /\ Visible(a) /\ a \notin observed
        /\ Visible(b) /\ b \notin observed

\* C17: the observer callback only adds the visible class; the stacksObserver
\* callback only adds or removes the hidden class, and only on heroStack and
\* coreStack; nothing else writes class lists.
C17_SideEffectsConfined ==
    [][/\ cb = "observer" =>
             \A n \in Nodes :
                 /\ classList[n] \subseteq classList'[n]
                 /\ classList'[n] \ classList[n] \subseteq {"visible"}
       /\ cb = "stacksObserver" =>
             \A n \in Nodes :
                 /\ classList'[n] \ {"hidden"} = classList[n] \ {"hidden"}
                 /\ n \notin {heroStack, coreStack} => classList'[n] = classList[n]
       /\ cb = "idle" => classList' = classList]_vars

\* both components have written their marker
C17_Witness ==
    /\ \E n \in Nodes : Visible(n)
    /\ \E n \in {heroStack, coreStack} : Hidden(n) # ("hidden" \in markup[n])
    /\ cb = "idle"

\* a node whose visible marker and whose hidden marker both differ from the markup
WrittenByBoth(n) ==
    /\ Visible(n) # ("visible" \in markup[n])
    /\ Hidden(n) # ("hidden" \in markup[n])

\* C18 as stated: no node is written by both components, and a class list
\* changes only in the callback invocation for an entry targeting that node.
C18_NoContention ==
    /\ [](\A n \in Nodes : ~WrittenByBoth(n))
    /\ [][\A n \in Nodes : classList'[n] # classList[n] => entry'.target = n]_vars

\* C18 amended: the observer callback writes only the target of its entry,
\* which is a tagged element; the stacksObserver callback writes only
\* heroStack and coreStack; a node is written by both only if it is a layer
\* that is itself tagged fade-in or stagger.
C18_WritesConfined ==
    /\ [](\A n \in Nodes :
            WrittenByBoth(n) => (n \in {heroStack, coreStack} /\ n \in Animated))
    /\ [][\A n \in Nodes : classList'[n] # classList[n] =>
             \/ cb = "observer" /\ n = entry'.target /\ n \in Animated
             \/ cb = "stacksObserver" /\ n \in {heroStack, coreStack}]_vars

\* heroStack is tagged fade-in and carries the marks of both components
C18_Witness ==
    /\ "fade-in" \in markup[heroStack]
    /\ WrittenByBoth(heroStack)
    /\ cb = "idle"

\* C19: the log grows by the entry being handled; when the observer callback
\* returns, every intersecting entry of its batch has its target visible and
\* unobserved; when the stacksObserver callback returns, the layers are as
\* the last entry of its batch says.
C19_BatchOrder ==
    /\ []((cb = "idle" /\ handler = "observer") =>
            \A i \in 1..Len(log) :
                log[i].isIntersecting =>
                    (Visible(log[i].target) /\ log[i].target \notin observed))
    /\ []((cb = "idle" /\ handler = "stacksObserver" /\ log # << >>) =>
            /\ Hidden(heroStack) = log[Len(log)].isIntersecting
            /\ Hidden(coreStack) = ~log[Len(log)].isIntersecting)
    /\ [][(ObserverProcessed \/ StacksProcessed) => log' = Append(log, Logged(entry'))]_vars

\* a full batch for the switcher whose first and last entries disagree
C19_Witness ==
    /\ cb = "idle"
    /\ handler = "stacksObserver"
    /\ Len(log) = MaxBatch
    /\ log[1].isIntersecting # log[Len(log)].isIntersecting

\* C20: an element gains the visible marker only in the step that handles an
\* intersecting entry targeting it; as long as the observer callback has
\* handled nothing, nothing is visible.
C20_NoSpuriousMarking ==
    /\ [](handler = "none" => \A n \in Nodes : ~Visible(n))
    /\ [][\A n \in Nodes :
             (~Visible(n) /\ "visible" \in classList'[n]) =>
                 /\ cb = "observer"
                 /\ entry'.target = n
                 /\ entry'.isIntersecting]_vars

\* three fade targets observed after load, no notification yet, none visible
C20_Witness ==
    \E a, b, c \in Nodes :
        /\ a < b /\ b < c
        /\ \A n \in {a, b, c} : "fade-in" \in markup[n] /\ n \in observed /\ ~Visible(n)
        /\ loaded
        /\ handler = "none"

\* the entry handled in this step follows, in the same batch, a
\* non-intersecting entry for the same target
AfterNonIntersecting ==
    \E i \in 1..Len(log) :
        log[i].target = entry'.target /\ ~log[i].isIntersecting

\* C21: a non-intersecting entry changes no class list and leaves the
\* observed set as it was, so its target, when pending, is still pending and
\* observed; new batches keep being deliverable for it, and an intersecting
\* entry that follows for a pending target marks it visible and unobserves it.
C21_NonIntersectingNoOp ==
    /\ [][/\ (ObserverProcessed /\ ~entry'.isIntersecting) =>
                (classList' = classList /\ observed' = observed)
          /\ (ObserverProcessed /\ entry'.isIntersecting /\ AfterNonIntersecting) =>
                ("visible" \in classList'[entry'.target] /\ entry'.target \notin observed')]_vars
    /\ []((cb = "idle" /\ handler = "observer" /\ ~entry.isIntersecting
             /\ entry.target \in observed) => ENABLED ObserverBatch)

\* a pending element was handed a non-intersecting entry and then an
\* intersecting one, which marked it
C21_Witness ==
    /\ Len(log) = 2
    /\ log[1].target \in Animated
    /\ ~log[1].isIntersecting
    /\ log[2].target = log[1].target
    /\ log[2].isIntersecting
    /\ ~("visible" \in markup[log[1].target])
    /\ Visible(log[1].target)
    /\ log[1].target \notin observed

\* the hidden markers of <<heroStack, coreStack>> as a function of the flag
\* of a trigger entry
SwitchResult(flag) == <<flag, ~flag>>

\* C22: the markers of the two layers after a trigger entry are one fixed
\* function of the entry's flag: every remembered entry, whatever preceded
\* it and whatever the markup wrote, ends in SwitchResult of its flag, and
\* so does the state in which the last entry handled is a trigger entry.
\* Two runs that end with the same entry therefore end in the same markers.
C22_Memoryless ==
    /\ \A i \in 1..Len(trail) :
          <<trail[i].hero, trail[i].core>> = SwitchResult(trail[i].isIntersecting)
    /\ (StackGuard /\ handler = "stacksObserver" /\ pc = "idle") =>
          <<Hidden(heroStack), Hidden(coreStack)>> = SwitchResult(entry.isIntersecting)

\* on a page whose markup showed both layers, the same flag was handled
\* twice with an entry of the other flag just before the second time
C22_Witness ==
    /\ ~("hidden" \in markup[heroStack])
    /\ ~("hidden" \in markup[coreStack])
    /\ pc = "idle"
    /\ \E j \in 3..Len(trail) :
          /\ trail[j].isIntersecting = trail[1].isIntersecting
          /\ trail[j - 1].isIntersecting # trail[j].isIntersecting
          /\ SameAssignment(1, j)

\* C23: two consecutive trigger entries with the same flag leave the two
\* layers as the first of them left them.
C23_SwitcherIdempotent ==
    \A i \in 1..(Len(trail) - 1) :
        trail[i].isIntersecting = trail[i + 1].isIntersecting => SameAssignment(i, i + 1)

\* the last two trigger entries were both intersecting, on a page whose
\* markup had hero hidden and core shown
C23_Witness ==
    /\ Len(trail) >= 2
    /\ trail[Len(trail)].isIntersecting
    /\ trail[Len(trail) - 1].isIntersecting
    /\ SameAssignment(Len(trail) - 1, Len(trail))
    /\ pc = "idle"
    /\ "hidden" \in markup[heroStack]
    /\ ~("hidden" \in markup[coreStack])

\* C24: no entry handled by observer changes the targets of stacksObserver;
\* once the trigger region has been marked visible (and so unobserved by
\* observer) it is still a target of stacksObserver, whose batches stay
\* deliverable, and every trigger entry processed from then on still sets
\* the two layers by its flag.
C24_IndependentSubscriptions ==
    /\ [][/\ ObserverProcessed => stacksObserved' = stacksObserved
          /\ (StacksProcessed /\ Visible(coreSection)) =>
                <<"hidden" \in classList'[heroStack], "hidden" \in classList'[coreStack]>>
                    = SwitchResult(entry'.isIntersecting)]_vars
    /\ []((stacksCreated /\ Visible(coreSection)) =>
             /\ coreSection \notin observed
             /\ coreSection \in stacksObserved
             /\ cb = "idle" => ENABLED StacksBatch)

\* the trigger region, tagged fade-in, has been marked visible by observer,
\* and a trigger entry handled after that has swapped the layers the markup
\* wrote
C24_Witness ==
    /\ "fade-in" \in markup[coreSection]
    /\ Visible(coreSection)
    /\ coreSection \notin observed
    /\ handler = "stacksObserver"
    /\ pc = "idle"
    /\ "hidden" \in markup[heroStack]
    /\ ~("hidden" \in markup[coreStack])
    /\ ~entry.isIntersecting
    /\ ~Hidden(heroStack)
    /\ Hidden(coreStack)

\* elements tagged both fade-in and stagger in the markup
DoublyTagged == {n \in inDoc : {"fade-in", "stagger"} \subseteq markup[n]}

\* C25: an element tagged both fade-in and stagger is observed after
\* initialization; its first intersecting entry marks it visible and takes
\* it out of the observed set; from then on it is never observed again and
\* no new batch of observer holds an entry for it.
C25_SingleSubscription ==
    /\ [][\A n \in DoublyTagged :
             /\ InitStep => n \in observed'
             /\ (ObserverProcessed /\ entry'.target = n /\ entry'.isIntersecting) =>
                   ("visible" \in classList'[n] /\ n \notin observed')
             /\ (loaded /\ n \notin observed) => n \notin observed'
             /\ (cb = "idle" /\ cb' = "observer" /\ Visible(n)) => n \notin queued']_vars
    /\ [](\A n \in DoublyTagged : Visible(n) => n \notin observed)

\* a doubly tagged element has fired, and a new batch for the targets that
\* are still pending is being delivered without it
C25_Witness ==
    \E n \in DoublyTagged :
        /\ Visible(n)
        /\ cb = "observer"
        /\ batchLeft = MaxBatch
        /\ queued # {}
        /\ n \notin queued
        /\ handler = "observer"
        /\ entry.target = n
        /\ entry.isIntersecting

\* nodes that match a query of the animator now but were not tagged in the
\* page the listener saw
TaggedLater == (fadeElements \cup staggerElements) \ Animated

\* C26: after the listener has run, the observed set is a subset of the
\* elements tagged when it ran and no step adds to it; only those elements
\* are ever marked visible; and the stack guard is evaluated in the listener
\* only: no later step creates stacksObserver or changes its targets.
C26_FixedAtInit ==
    /\ [](loaded => observed \subseteq Animated)
    /\ [](\A n \in Nodes : Visible(n) => n \in Animated)
    /\ [][/\ InitStep => stacksCreated' = StackGuard
          /\ loaded => /\ observed' \subseteq observed
                       /\ stacksCreated' = stacksCreated
                       /\ stacksObserved' = stacksObserved]_vars

\* a node was tagged after the listener ran and the missing stack node was
\* inserted; the next batch of observer goes to the pending targets only and
\* stacksObserver does not exist
C26_Witness ==
    /\ loaded
    /\ StackGuard
    /\ ~stacksCreated
    /\ cb = "observer"
    /\ queued # {}
    /\ \E n \in TaggedLater :
          /\ n \notin queued
          /\ n \notin observed
          /\ ~Visible(n)

\* every element tagged for animation is marked and observer has no target
AnimatorDone ==
    /\ loaded
    /\ observed = {}
    /\ \A n \in Animated : Visible(n)

\* C27: when the listener runs and every observed element is in the end
\* handed an intersecting entry, from some point on every animated element
\* is marked visible and the observed set is empty, for ever.
C27_EventualCompletion == <>[]AnimatorDone

\* a page with two animated elements on which both have fired
C27_Witness ==
    /\ AnimatorDone
    /\ Cardinality(Animated) >= 2
    /\ cb = "idle"

TypeOK ==
    /\ inDoc \subseteq Nodes
    /\ loaded \in BOOLEAN
    /\ observed \subseteq inDoc
    /\ stacksObserved \subseteq {coreSection}
    /\ cb \in {"idle", "observer", "stacksObserver"}
    /\ batchLeft \in 0..MaxBatch
    /\ pc \in {"idle", "second"}
    /\ handler \in {"none", "observer", "stacksObserver"}
    /\ tracking \in BOOLEAN
    /\ Len(trail) <= TrailLen
    /\ logging \in BOOLEAN
    /\ Len(log) <= MaxBatch
    /\ threw = FALSE
====
